---- MODULE Spec2Model ----
(***************************************************************************)
(* The escrow ledger of TruE-MAN (contracts/contract1/contract1.sol) and   *)
(* the admin panel handlers that drive it.                                 *)
(*                                                                         *)
(* Money is counted in units of 10^13 wei, so that 0.00012 ether = 12,     *)
(* 0.01 ether = 1000 and 0.0144 ether = 1440.  uint256 is scaled down to   *)
(* 0..UintMax; Solidity 0.8 arithmetic is checked, so a product above      *)
(* UintMax reverts with Panic(0x11).                                       *)
(*                                                                         *)
(* A transaction is atomic on the chain, but confirmRequest and            *)
(* cancelRequest hand control to the payment recipient (a low-level call   *)
(* with all gas) before they write the status.  The model therefore keeps  *)
(* the EVM call stack: a frame is pushed when the transfer is made, the    *)
(* recipient may call back into the ledger, return, or revert, and a       *)
(* reverting frame restores the state saved at its entry.                  *)
(*                                                                         *)
(* The admin panel notifies the middleware's request store of a confirmed  *)
(* or cancelled request with fetchWithRetry (unnamed/part_001).  The store *)
(* itself is not part of these sources; it is modelled from its            *)
(* specification (sections 3, 4.2, 4.3 and 5).                             *)
(***************************************************************************)
EXTENDS Integers, Sequences, FiniteSets

\* ---------------------------------------------------------------- bounds

MaxRequests == 2      \* ids 0..MaxRequests-1 can be assigned or addressed
MaxDepth == 1         \* nested (re-entrant) calls allowed under one call
UintMax == 4095       \* scaled stand-in for 2^256 - 1
InitialFunds == 3000  \* what the buyer account holds at the start

\* ------------------------------------------------------------- constants

RatePerMinute == 12   \* 0.00012 ether, in units of 10^13 wei

Ledger == "ledger"                 \* address(this)
deployerOperator == "deployer"     \* set once by the constructor
ZeroAddress == "zero"              \* address(0)

Senders == {"deployer", "buyer"}               \* accounts that send calls
Accounts == {Ledger, "deployer", "buyer"}      \* accounts holding funds
Ids == 0 .. (MaxRequests - 1)
DetailsSet == {"0xabc"}
TimestampSet == {1}

\* createRequest arguments tried while requests are confirmed and cancelled
\* (Spec): the user panel's call, where the buyer pays for itself, plus the
\* arguments that are refused.
Payers == {"buyer"}
BuyerSet == {ZeroAddress, "buyer"}
NumUsersSet == {2, 6}
DurationSet == {60}
PaymentSet == {1000, 1440}

\* createRequest arguments tried when createRequest is studied on its own
\* (SpecCreate).
CreatePayers == {"deployer", "buyer"}
CreateBuyers == {ZeroAddress, "deployer", "buyer"}
CreateUsers == {0, 2, 6}
CreateDurations == {30, 60}
CreatePayments == {0, 1000, 1440, 1500}

ErrNotDeployer == "Not the deployer Operator"
ErrNotCreated == "The request is not in 'Created' status"
ErrInvalidBuyer == "Invalid buyerOperator"
ErrInsufficient == "Insufficient amount on buyer's account"
ErrPayment == "Payment failed"
ErrRefund == "Refund failed"
ErrPanic == "Panic(0x11)"
Ok == "ok"
Pending == "pending"   \* the transaction has not finished yet

\* The value of requests[id] for a key never written: all fields zero, and
\* Status(0) is Created.
ZeroRequest ==
    [id |-> 0, buyerOperator |-> ZeroAddress, numUsers |-> 0,
     durationMins |-> 0, orderDetails |-> "0x0", status |-> "Created",
     createdAt |-> 0, amountPaid |-> 0]

NoEvents == [created |-> 0, confirmed |-> 0, cancelled |-> 0]

VARIABLES
    requests,       \* mapping(uint256 => Request)
    nextRequestId,  \* uint256
    balance,        \* ether held by each account, the ledger included
    events,         \* per id: how many of each event the ledger has emitted
    paidOut,        \* per id: total value the ledger has sent for that request
    stack,          \* call frames of the transaction in progress
    last,           \* the most recently finished call and its outcome
    notified,       \* per id: notifications the admin panel has started
    bridge,         \* the fetchWithRetry calls made, by PATCH url (reference, state)
    store,          \* the request store: the tracked request of each reference
    creating        \* the /api/create call of each panel

vars == <<requests, nextRequestId, balance, events, paidOut, stack, last, notified,
          bridge, store, creating>>

\* What a call to the ledger leaves alone.
syncVars == <<bridge, store, creating>>

\* What the bridge and the store leave alone, besides the ledger.
panelVars == <<stack, last, notified, creating>>

ledgerVars == <<requests, nextRequestId, balance, events, paidOut>>

\* ------------------------------------------------------------ helpers

\* The part of the state a revert restores.
Snapshot ==
    [requests |-> requests, balance |-> balance, events |-> events, paidOut |-> paidOut]

Move(b, from, to, amt) ==
    IF from = to THEN b
    ELSE [b EXCEPT ![from] = @ - amt, ![to] = @ + amt]

NoArgs == [buyerOperator |-> ZeroAddress, numUsers |-> 0, durationMins |-> 0, value |-> 0]

\* A finished call as its sender sees it: what was called, with which
\* arguments, and the revert reason (Ok when it did not revert).
Result(op, sender, id, err) ==
    [op |-> op, sender |-> sender, id |-> id, err |-> err, args |-> NoArgs]

\* What the sender of a transaction is told.  A call made by a recipient from
\* inside a transfer reports to that recipient alone, not to the panel.
Report(op, sender, id, err) ==
    IF stack = <<>> THEN Result(op, sender, id, err) ELSE last

\* Checked uint256 multiplication: -1 stands for the Panic(0x11) revert.
CheckedMul(a, b) ==
    IF a = -1 \/ b = -1 THEN -1
    ELSE IF a * b > UintMax THEN -1 ELSE a * b

\* Variant: the duration charged by the started hour (rounded up to 60 minutes).
RequiredPayment_PerHour(durationMins, numUsers) ==
    CheckedMul(CheckedMul((durationMins + 59) \div 60, numUsers), 60 * RatePerMinute)

\* durationMins * numUsers * 0.00012 ether, evaluated left to right.
RequiredPayment(durationMins, numUsers) ==
    CheckedMul(CheckedMul(durationMins, numUsers), RatePerMinute)

\* block.timestamp never runs backwards.
LatestCreatedAt ==
    LET S == {requests[i].createdAt : i \in Ids} IN
    CHOOSE t \in S : \A u \in S : u <= t

\* A call can be made by anyone when no transaction is running, and by the
\* account that is receiving a transfer while the transfer is in progress.
CanCall(sender) ==
    \/ stack = <<>>
    \/ /\ stack # <<>>
       /\ Len(stack) <= MaxDepth
       /\ stack[Len(stack)].recipient = sender

\* The ids confirmRequest and cancelRequest are called with: the assigned
\* ones and the first one not assigned yet.
Addressed == {i \in Ids : i <= nextRequestId}

\* ------------------------------------------------------------ createRequest

\* Variant: line 58 written with > in place of >=.
CreateOutcome_RejectsExact(buyerOperator, numUsers, durationMins, value) ==
    IF buyerOperator = ZeroAddress THEN ErrInvalidBuyer
    ELSE IF RequiredPayment(durationMins, numUsers) = -1 THEN ErrPanic
    ELSE IF value <= RequiredPayment(durationMins, numUsers) THEN ErrInsufficient
    ELSE Ok

\* Variant: line 55 left out.
CreateOutcome_NoZeroCheck(buyerOperator, numUsers, durationMins, value) ==
    IF RequiredPayment(durationMins, numUsers) = -1 THEN ErrPanic
    ELSE IF value < RequiredPayment(durationMins, numUsers) THEN ErrInsufficient
    ELSE Ok

\* Variant: line 58 written with == in place of >=.
CreateOutcome_ExactOnly(buyerOperator, numUsers, durationMins, value) ==
    IF buyerOperator = ZeroAddress THEN ErrInvalidBuyer
    ELSE IF RequiredPayment(durationMins, numUsers) = -1 THEN ErrPanic
    ELSE IF value # RequiredPayment(durationMins, numUsers) THEN ErrInsufficient
    ELSE Ok

\* Variant: line 58 left out.
CreateOutcome_AcceptsUnderpaid(buyerOperator, numUsers, durationMins, value) ==
    IF buyerOperator = ZeroAddress THEN ErrInvalidBuyer
    ELSE IF RequiredPayment(durationMins, numUsers) = -1 THEN ErrPanic
    ELSE Ok

\* Lines 55-58: the requires of createRequest in the order they run.
CreateOutcome(buyerOperator, numUsers, durationMins, value) ==
    IF buyerOperator = ZeroAddress THEN ErrInvalidBuyer
    ELSE IF RequiredPayment(durationMins, numUsers) = -1 THEN ErrPanic
    ELSE IF value < RequiredPayment(durationMins, numUsers) THEN ErrInsufficient
    ELSE Ok

\* Variant: line 60 written as id = nextRequestId, without the increment.
CreateRequest_NoIncrement(sender, buyerOperator, numUsers, durationMins, orderDetails, value, ts) ==
    /\ stack = <<>>
    /\ balance[sender] >= value
    /\ nextRequestId < MaxRequests
    /\ ts >= LatestCreatedAt
    /\ LET err == CreateOutcome(buyerOperator, numUsers, durationMins, value)
           id == nextRequestId
       IN  /\ last' = [op |-> "createRequest", sender |-> sender, id |-> id, err |-> err,
                       args |-> [buyerOperator |-> buyerOperator, numUsers |-> numUsers,
                                 durationMins |-> durationMins, value |-> value]]
           /\ IF err = Ok
              THEN /\ requests' = [requests EXCEPT ![id] =
                         [id |-> id, buyerOperator |-> buyerOperator,
                          numUsers |-> numUsers, durationMins |-> durationMins,
                          orderDetails |-> orderDetails, status |-> "Created",
                          createdAt |-> ts, amountPaid |-> value]]
                   /\ balance' = Move(balance, sender, Ledger, value)
                   /\ events' = [events EXCEPT ![id].created = @ + 1]
                   /\ UNCHANGED <<nextRequestId, paidOut>>
              ELSE UNCHANGED ledgerVars
    /\ UNCHANGED <<stack, notified>>

\* Lines 49-74.  The call returns the id it assigned (last.id).
CreateRequest(sender, buyerOperator, numUsers, durationMins, orderDetails, value, ts) ==
    /\ stack = <<>>
    /\ balance[sender] >= value
    /\ nextRequestId < MaxRequests
    /\ ts >= LatestCreatedAt
    /\ LET err == CreateOutcome(buyerOperator, numUsers, durationMins, value)
           id == nextRequestId
       IN  /\ last' = [op |-> "createRequest", sender |-> sender, id |-> id, err |-> err,
                       args |-> [buyerOperator |-> buyerOperator, numUsers |-> numUsers,
                                 durationMins |-> durationMins, value |-> value]]
           /\ IF err = Ok
              THEN /\ nextRequestId' = nextRequestId + 1
                   /\ requests' = [requests EXCEPT ![id] =
                         [id |-> id, buyerOperator |-> buyerOperator,
                          numUsers |-> numUsers, durationMins |-> durationMins,
                          orderDetails |-> orderDetails, status |-> "Created",
                          createdAt |-> ts, amountPaid |-> value]]
                   /\ balance' = Move(balance, sender, Ledger, value)
                   /\ events' = [events EXCEPT ![id].created = @ + 1]
                   /\ UNCHANGED paidOut
              ELSE UNCHANGED ledgerVars
    /\ UNCHANGED <<stack, notified>>

\* ------------------------------------------------------------ confirmRequest

\* Variant: line 79 left out.
ConfirmOutcome_NoStatusCheck(sender, id) ==
    IF sender # deployerOperator THEN ErrNotDeployer
    ELSE IF balance[Ledger] < requests[id].amountPaid THEN ErrPayment
    ELSE Ok

\* onlyDeployer, the status check, and whether the ledger can fund the call.
ConfirmOutcome(sender, id) ==
    IF sender # deployerOperator THEN ErrNotDeployer
    ELSE IF requests[id].status # "Created" THEN ErrNotCreated
    ELSE IF balance[Ledger] < requests[id].amountPaid THEN ErrPayment
    ELSE Ok

ConfirmRecipient(id) == deployerOperator

\* Lines 78-81: the checks, then the transfer; control passes to the recipient.
ConfirmBegin(sender, id) ==
    /\ CanCall(sender)
    /\ LET err == ConfirmOutcome(sender, id)
           amt == requests[id].amountPaid
           to == ConfirmRecipient(id)
       IN  IF err = Ok
           THEN /\ stack' = Append(stack, [op |-> "confirmRequest", id |-> id,
                                           sender |-> sender, recipient |-> to,
                                           saved |-> Snapshot])
                /\ balance' = Move(balance, Ledger, to, amt)
                /\ paidOut' = [paidOut EXCEPT ![id] = @ + amt]
                /\ last' = Report("confirmRequest", sender, id, Pending)
                /\ UNCHANGED <<requests, nextRequestId, events, notified>>
           ELSE /\ last' = Report("confirmRequest", sender, id, err)
                /\ UNCHANGED <<ledgerVars, stack, notified>>

\* ------------------------------------------------------------ cancelRequest

\* Variant: cancelRequest declared without onlyDeployer.
CancelOutcome_NoSenderCheck(sender, id) ==
    IF requests[id].status # "Created" THEN ErrNotCreated
    ELSE IF balance[Ledger] < requests[id].amountPaid THEN ErrRefund
    ELSE Ok

CancelOutcome(sender, id) ==
    IF sender # deployerOperator THEN ErrNotDeployer
    ELSE IF requests[id].status # "Created" THEN ErrNotCreated
    ELSE IF balance[Ledger] < requests[id].amountPaid THEN ErrRefund
    ELSE Ok

\* Variant: the refund of line 94 sent to the deployer.
CancelRecipient_Owner(id) == deployerOperator

CancelRecipient(id) == requests[id].buyerOperator

\* What the admin panel does once its transaction is mined: it starts one
\* notification of the given kind for the request.
Notify(id, kind) == [notified EXCEPT ![id][kind] = @ + 1]

\* Lines 90-94; with amountPaid = 0 no call is made and lines 98-99 follow.
CancelBegin(sender, id) ==
    /\ CanCall(sender)
    /\ LET err == CancelOutcome(sender, id)
           amt == requests[id].amountPaid
           to == CancelRecipient(id)
       IN  IF err # Ok
           THEN /\ last' = Report("cancelRequest", sender, id, err)
                /\ UNCHANGED <<ledgerVars, stack, notified>>
           ELSE IF amt > 0
           THEN /\ stack' = Append(stack, [op |-> "cancelRequest", id |-> id,
                                           sender |-> sender, recipient |-> to,
                                           saved |-> Snapshot])
                /\ balance' = Move(balance, Ledger, to, amt)
                /\ paidOut' = [paidOut EXCEPT ![id] = @ + amt]
                /\ last' = Report("cancelRequest", sender, id, Pending)
                /\ UNCHANGED <<requests, nextRequestId, events, notified>>
           ELSE /\ requests' = [requests EXCEPT ![id].status = "Cancelled"]
                /\ events' = [events EXCEPT ![id].cancelled = @ + 1]
                /\ last' = Report("cancelRequest", sender, id, Ok)
                /\ notified' = IF stack = <<>> THEN Notify(id, "rejected") ELSE notified
                /\ UNCHANGED <<nextRequestId, balance, paidOut, stack>>

\* ------------------------------------------------------------ the recipient

Top == stack[Len(stack)]

Pop == SubSeq(stack, 1, Len(stack) - 1)

FinalStatus(op) == IF op = "confirmRequest" THEN "Confirmed" ELSE "Cancelled"

\* Variant: amountPaid cleared together with the status write.
RecipientAccept_ClearsAmount ==
    /\ stack # <<>>
    /\ requests' = [requests EXCEPT ![Top.id].status = FinalStatus(Top.op),
                                    ![Top.id].amountPaid = 0]
    /\ events' = IF Top.op = "confirmRequest"
                 THEN [events EXCEPT ![Top.id].confirmed = @ + 1]
                 ELSE [events EXCEPT ![Top.id].cancelled = @ + 1]
    /\ last' = IF Len(stack) = 1 THEN Result(Top.op, Top.sender, Top.id, Ok) ELSE last
    /\ stack' = Pop
    /\ notified' = IF Len(stack) = 1
                   THEN Notify(Top.id, IF Top.op = "confirmRequest"
                                       THEN "accepted" ELSE "rejected")
                   ELSE notified
    /\ UNCHANGED <<nextRequestId, balance, paidOut>>

\* The recipient returns: sent = true, lines 84-85 (98-99) run and the call
\* returns.  A call made by the panel (the bottom frame) is then mined and the
\* panel starts its notification.
RecipientAccept ==
    /\ stack # <<>>
    /\ requests' = [requests EXCEPT ![Top.id].status = FinalStatus(Top.op)]
    /\ events' = IF Top.op = "confirmRequest"
                 THEN [events EXCEPT ![Top.id].confirmed = @ + 1]
                 ELSE [events EXCEPT ![Top.id].cancelled = @ + 1]
    /\ last' = IF Len(stack) = 1 THEN Result(Top.op, Top.sender, Top.id, Ok) ELSE last
    /\ stack' = Pop
    /\ notified' = IF Len(stack) = 1
                   THEN Notify(Top.id, IF Top.op = "confirmRequest"
                                       THEN "accepted" ELSE "rejected")
                   ELSE notified
    /\ UNCHANGED <<nextRequestId, balance, paidOut>>

\* Variant: the result of the transfer ignored (no require on sent): the
\* value comes back to the ledger and the call carries on to write the status.
RecipientReject_Ignored ==
    /\ stack # <<>>
    /\ requests' = [requests EXCEPT ![Top.id].status = FinalStatus(Top.op)]
    /\ balance' = Move(balance, Top.recipient, Ledger, Top.saved.requests[Top.id].amountPaid)
    /\ paidOut' = [paidOut EXCEPT ![Top.id] = @ - Top.saved.requests[Top.id].amountPaid]
    /\ events' = IF Top.op = "confirmRequest"
                 THEN [events EXCEPT ![Top.id].confirmed = @ + 1]
                 ELSE [events EXCEPT ![Top.id].cancelled = @ + 1]
    /\ last' = IF Len(stack) = 1 THEN Result(Top.op, Top.sender, Top.id, Ok) ELSE last
    /\ stack' = Pop
    /\ UNCHANGED <<nextRequestId, notified>>

\* The recipient reverts: sent = false, the require fails and the whole call
\* is rolled back to its entry.
RecipientReject ==
    /\ stack # <<>>
    /\ requests' = Top.saved.requests
    /\ balance' = Top.saved.balance
    /\ events' = Top.saved.events
    /\ paidOut' = Top.saved.paidOut
    /\ last' = IF Len(stack) = 1
                THEN Result(Top.op, Top.sender, Top.id,
                            IF Top.op = "confirmRequest" THEN ErrPayment ELSE ErrRefund)
                ELSE last
    /\ stack' = Pop
    /\ UNCHANGED <<nextRequestId, notified>>

\* ------------------------------------------------------------ the views

\* The loop of lines 114-119: ids i..nextRequestId-1 in ascending order, the
\* records with the given status copied out.
RECURSIVE ScanFrom(_, _)
ScanFrom(i, status) ==
    IF i >= nextRequestId THEN <<>>
    ELSE (IF requests[i].status = status THEN <<requests[i]>> ELSE <<>>)
         \o ScanFrom(i + 1, status)

\* Variant: the loop of line 114 started at i = 1.
getPendingRequests_SkipsFirst == ScanFrom(1, "Created")

getPendingRequests == ScanFrom(0, "Created")

getConfirmedRequests == ScanFrom(0, "Confirmed")

getCancelledRequests_ScansConfirmed == ScanFrom(0, "Confirmed")

getCancelledRequests == ScanFrom(0, "Cancelled")

LedgerOps == {"confirmRequest", "cancelRequest"}

\* ------------------------------------------------------------ the request store

\* The states a PATCH /api/request/<tx_hash>/<state> is sent with.
Kinds == {"accepted", "rejected"}

TxOps == {"createRequest", "confirmRequest", "cancelRequest"}

\* tx.hash: every mined transaction has a hash of its own.  A transaction is
\* named here by the call it carries; confirmRequest and cancelRequest are
\* mined at most once per assigned id with success.
TxHash(op, id) == <<op, id>>

Refs == {TxHash(op, id) : op \in TxOps, id \in Ids}

NotSeen == [accepted |-> 0, rejected |-> 0]

\* What a lookup gives for a reference the store holds no record for.  ran
\* lists the reconfiguration steps of the sequence under way that have
\* succeeded, failed counts the steps that have failed.
Untracked == [state |-> "none", runs |-> 0, seen |-> NotSeen, ran |-> <<>>, failed |-> 0]

\* The record the store holds under a reference.
Tracked(st, ref) == IF ref \in DOMAIN st THEN st[ref] ELSE Untracked

\* The monotonic order Created < Pending < Accepted/Rejected < Completed.
Rank(state) ==
    CASE state = "Created" -> 0
      [] state = "Pending" -> 1
      [] state \in {"Accepted", "Rejected"} -> 2
      [] state = "Completed" -> 3
      [] OTHER -> -1

StateOf(kind) == IF kind = "accepted" THEN "Accepted" ELSE "Rejected"

\* The record already shows the delivered state, or the Completed that
\* follows Accepted.
Covers(state, kind) ==
    \/ state = StateOf(kind)
    \/ (kind = "accepted" /\ state = "Completed")

\* The record inserted when a request has been forwarded to the chain.
Insert(st, ref) ==
    [r \in DOMAIN st \cup {ref} |->
        IF r = ref THEN [Untracked EXCEPT !.state = "Pending"] ELSE st[r]]

\* Variant: the update applied whatever the record holds.
Deliver_Unconditional(st, ref, kind) ==
    IF ref \notin DOMAIN st THEN st
    ELSE [st EXCEPT ![ref].state = StateOf(kind),
                    ![ref].runs = IF kind = "accepted" THEN @ + 1 ELSE @,
                    ![ref].seen[kind] = @ + 1]

\* The state update by key: applied when it advances the record, a no-op
\* when the record is already there or further on.  runs counts the
\* reconfiguration sequences an acceptance has triggered, seen the updates
\* of each kind the record has been sent.
Deliver(st, ref, kind) ==
    IF ref \notin DOMAIN st THEN st
    ELSE IF Rank(StateOf(kind)) > Rank(st[ref].state)
    THEN [st EXCEPT ![ref].state = StateOf(kind),
                    ![ref].runs = IF kind = "accepted" THEN @ + 1 ELSE @,
                    ![ref].seen[kind] = @ + 1]
    ELSE [st EXCEPT ![ref].seen[kind] = @ + 1]

\* What the store answers to the update.
StoreResponse(st, ref, kind) ==
    IF ref \notin DOMAIN st THEN "notFound"
    ELSE IF Covers(st[ref].state, kind) THEN "ok"
    ELSE IF Rank(StateOf(kind)) > Rank(st[ref].state) THEN "ok"
    ELSE "conflict"

\* ------------------------------------------------------------ the orchestrator

\* The steps an acceptance sets off, in the order they are made: restart the
\* gNodeB with the tenant configuration, fetch all UEs from the agent, update
\* the TAC restrictions of the UEs that are not the tenant's.
StepsInOrder == <<"restart", "fetchUEs", "updateTAC">>

\* A sequence is under way (or can be run again) while the record is Accepted.
Running(st, ref) ==
    /\ ref \in DOMAIN st
    /\ st[ref].state = "Accepted"

\* Variant: a failed step skipped, the sequence carrying on with the next one.
Orchestrate_SkipsFailed(st, ref, ok) ==
    [st EXCEPT ![ref].ran = Append(@, StepsInOrder[Len(@) + 1]),
               ![ref].failed = IF ok THEN @ ELSE @ + 1]

\* The next step of the sequence is made.  When it succeeds the sequence goes
\* on; when it fails the sequence is given up, the record stays Accepted and
\* the sequence starts again with the first step when it is run again.
Orchestrate(st, ref, ok) ==
    IF ok
    THEN [st EXCEPT ![ref].ran = Append(@, StepsInOrder[Len(@) + 1])]
    ELSE [st EXCEPT ![ref].ran = <<>>, ![ref].failed = @ + 1]

\* Step 4: the request is marked completed.
MarkCompleted(st, ref) == [st EXCEPT ![ref].state = "Completed"]

\* ------------------------------------------------------------ fetchWithRetry

retries == 3

\* A fetchWithRetry call that has not been made.
Idle == [status |-> "idle", i |-> 0, fetches |-> 0, waits |-> <<>>,
         logged |-> 0, response |-> "none", thrown |-> "none"]

\* The call made with a url, Idle when none was made.
Call(br, ref, kind) == IF <<ref, kind>> \in DOMAIN br THEN br[<<ref, kind>>] ELSE Idle

SetCall(br, ref, kind, b) ==
    [k \in DOMAIN br \cup {<<ref, kind>>} |-> IF k = <<ref, kind>> THEN b ELSE br[k]]

\* Line 19: Math.pow(2, i) * 1000.
Delay(i) == (2 ^ i) * 1000

\* What can happen to one fetch: the connection fails before the store is
\* reached; the store is reached but answers with a server error without
\* handling the update; the store handles the update and the answer is lost
\* on the way back; the store handles it and its answer arrives.
NetSet == {"conn", "busy", "lost", "through"}

\* What await fetch(url, options) gives line 14: a thrown error, a response
\* that is not ok, or an ok response.
Got(net, ref, kind) ==
    IF net \in {"conn", "lost"} THEN "error"
    ELSE IF net = "busy" THEN "http"
    ELSE IF StoreResponse(store, ref, kind) = "ok" THEN "ok" ELSE "http"

\* Variant: the catch of lines 49-51 (71-73) without its console.error.
HandlerLogs_Silent(thrown) == 0

\* Lines 49-51: console.error when fetchWithRetry has thrown.
HandlerLogs(thrown) == IF thrown THEN 1 ELSE 0

\* Line 53 (75): the handler answers success: true on either path.
HandlerResponse(thrown) == "success"

\* Variant: line 15 without its return; a success is followed by the next
\* round of the loop.
AfterFetch_NoEarlyReturn(b, got) ==
    IF b.i = retries - 1
    THEN IF got = "ok"
         THEN [b EXCEPT !.status = "resolved", !.fetches = @ + 1,
                        !.logged = @ + HandlerLogs(FALSE),
                        !.response = HandlerResponse(FALSE)]
         ELSE [b EXCEPT !.status = "rejected", !.fetches = @ + 1,
                        !.logged = @ + HandlerLogs(TRUE),
                        !.response = HandlerResponse(TRUE), !.thrown = got]
    ELSE IF got = "ok"
    THEN [b EXCEPT !.i = @ + 1, !.fetches = @ + 1]
    ELSE [b EXCEPT !.status = "waiting", !.fetches = @ + 1,
                   !.waits = Append(@, Delay(b.i))]

\* Variant: line 18 written as i === retries; the last round of the loop
\* waits like the others and one more round follows.
AfterFetch_OneMore(b, got) ==
    IF got = "ok"
    THEN [b EXCEPT !.status = "resolved", !.fetches = @ + 1,
                   !.logged = @ + HandlerLogs(FALSE),
                   !.response = HandlerResponse(FALSE)]
    ELSE IF b.i = retries
    THEN [b EXCEPT !.status = "rejected", !.fetches = @ + 1,
                   !.logged = @ + HandlerLogs(TRUE),
                   !.response = HandlerResponse(TRUE), !.thrown = got]
    ELSE [b EXCEPT !.status = "waiting", !.fetches = @ + 1,
                   !.waits = Append(@, Delay(b.i))]

\* Lines 14-21 for one round of the loop, and lines 45-53 when the call
\* settles: an ok response is returned; any other outcome is thrown on when
\* it was the last round (thrown keeps which) and is followed by the wait of
\* line 21 otherwise.
AfterFetch(b, got) ==
    IF got = "ok"
    THEN [b EXCEPT !.status = "resolved", !.fetches = @ + 1,
                   !.logged = @ + HandlerLogs(FALSE),
                   !.response = HandlerResponse(FALSE)]
    ELSE IF b.i = retries - 1
    THEN [b EXCEPT !.status = "rejected", !.fetches = @ + 1,
                   !.logged = @ + HandlerLogs(TRUE),
                   !.response = HandlerResponse(TRUE), !.thrown = got]
    ELSE [b EXCEPT !.status = "waiting", !.fetches = @ + 1,
                   !.waits = Append(@, Delay(b.i))]

\* Lines 46 (68): the handler calls fetchWithRetry with the PATCH url.
fetchWithRetry(ref, kind) ==
    /\ Call(bridge, ref, kind).status = "idle"
    /\ bridge' = SetCall(bridge, ref, kind, [Idle EXCEPT !.status = "fetching"])
    /\ UNCHANGED <<ledgerVars, panelVars, store>>

\* One fetch settles.
Fetch(ref, kind, net) ==
    /\ Call(bridge, ref, kind).status = "fetching"
    /\ bridge' = SetCall(bridge, ref, kind,
                         AfterFetch(Call(bridge, ref, kind), Got(net, ref, kind)))
    /\ store' = IF net \in {"lost", "through"} THEN Deliver(store, ref, kind) ELSE store
    /\ UNCHANGED <<ledgerVars, panelVars>>

\* The timer of line 21 fires and the loop goes on with i + 1.
Backoff(ref, kind) ==
    /\ Call(bridge, ref, kind).status = "waiting"
    /\ bridge' = SetCall(bridge, ref, kind,
                         [Call(bridge, ref, kind) EXCEPT !.status = "fetching", !.i = @ + 1])
    /\ UNCHANGED <<ledgerVars, panelVars, store>>

\* ------------------------------------------------------------ /api/create

\* The panels that serve /api/create: the user panel (server.js) and the
\* admin panel (part_001).
Clients == {"user", "admin"}

\* assigned is the id createRequest returned inside the transaction, answered
\* the requestId the handler sends back.
NotCalled == [pc |-> "idle", assigned |-> -1, answered |-> -1]

\* ------------------------------------------------------------ specification

Init ==
    /\ requests = [i \in Ids |-> ZeroRequest]
    /\ nextRequestId = 0
    /\ balance = [a \in Accounts |-> IF a = "buyer" THEN InitialFunds ELSE 0]
    /\ events = [i \in Ids |-> NoEvents]
    /\ paidOut = [i \in Ids |-> 0]
    /\ stack = <<>>
    /\ last = Result("none", ZeroAddress, 0, Ok)
    /\ notified = [i \in Ids |-> [accepted |-> 0, rejected |-> 0]]
    /\ bridge = [k \in {} |-> Idle]
    /\ store = [r \in {} |-> Untracked]
    /\ creating = [c \in Clients |-> NotCalled]

Next ==
    \/ /\ \E s \in Payers, b \in BuyerSet, n \in NumUsersSet, d \in DurationSet,
             h \in DetailsSet, v \in PaymentSet, t \in TimestampSet :
             CreateRequest(s, b, n, d, h, v, t)
       /\ UNCHANGED syncVars
    \/ /\ \E s \in Senders, id \in Addressed : ConfirmBegin(s, id)
       /\ UNCHANGED syncVars
    \/ /\ \E s \in Senders, id \in Addressed : CancelBegin(s, id)
       /\ UNCHANGED syncVars
    \/ RecipientAccept /\ UNCHANGED syncVars
    \/ RecipientReject /\ UNCHANGED syncVars

Spec == Init /\ [][Next]_vars

\* createRequest alone, over a wider range of arguments.
NextCreate ==
    /\ \E s \in CreatePayers, b \in CreateBuyers, n \in CreateUsers, d \in CreateDurations,
          h \in DetailsSet, v \in CreatePayments, t \in TimestampSet :
          CreateRequest(s, b, n, d, h, v, t)
    /\ UNCHANGED syncVars

SpecCreate == Init /\ [][NextCreate]_vars

\* Requests paid with more than the required payment (a caller of the ledger
\* chooses msg.value freely), then confirmed and cancelled by the deployer.
OverpaySet == {1500}

NextOverpay ==
    \/ /\ \E h \in DetailsSet, v \in OverpaySet, t \in TimestampSet :
             CreateRequest("buyer", "buyer", 2, 60, h, v, t)
       /\ UNCHANGED syncVars
    \/ /\ \E id \in Ids : id < nextRequestId /\ ConfirmBegin(deployerOperator, id)
       /\ UNCHANGED syncVars
    \/ /\ \E id \in Ids : id < nextRequestId /\ CancelBegin(deployerOperator, id)
       /\ UNCHANGED syncVars
    \/ RecipientAccept /\ UNCHANGED syncVars
    \/ RecipientReject /\ UNCHANGED syncVars

SpecOverpay == Init /\ [][NextOverpay]_vars

\* ------------------------------------------------------------ the panels

MaxTracked == 2       \* requests submitted through the user panel

\* Variant: the rate of line 19 written as parseEther("0.0001").
PanelPayment_RoundedRate(durationMins, numUsers) == 10 * durationMins * numUsers

\* server.js lines 19-21: the payment the user panel attaches.
PanelPayment(durationMins, numUsers) == RatePerMinute * durationMins * numUsers

\* The reference a request is tracked under: the txHash the user panel
\* returns for the createRequest transaction (server.js line 33).
TrackedRef(id) == TxHash("createRequest", id)

KindOf(op) == IF op = "confirmRequest" THEN "accepted" ELSE "rejected"

\* A request is submitted through the user panel: the wallet pays for itself,
\* and once the transaction is mined the request is tracked as Pending.
Submit ==
    /\ nextRequestId < MaxTracked
    /\ \E d \in DurationSet, h \in DetailsSet, t \in TimestampSet :
          CreateRequest("buyer", "buyer", 2, d, h, PanelPayment(d, 2), t)
    /\ store' = Insert(store, TrackedRef(nextRequestId))
    /\ UNCHANGED <<bridge, creating>>

\* Variant: line 42 (64) left out, the handler going on without waiting for
\* the transaction.
Mined_NotAwaited(id, op) == TRUE

\* Lines 41-42 (63-64): await tx.wait() has returned, the transaction the
\* handler sent was mined with success.  A call that reverts throws and takes
\* the handler to the catch of line 54 (76).
Mined(id, op) == notified[id][KindOf(op)] > 0

\* The admin panel with the store behind it.  /api/confirm and /api/cancel
\* send one transaction each; when it is mined with success the handler goes
\* on to fetchWithRetry with the hash of that transaction.
NextSync ==
    \/ Submit
    \/ /\ stack = <<>>
       /\ \E s \in Senders, id \in Ids : id < nextRequestId /\ ConfirmBegin(s, id)
       /\ UNCHANGED syncVars
    \/ /\ stack = <<>>
       /\ \E s \in Senders, id \in Ids : id < nextRequestId /\ CancelBegin(s, id)
       /\ UNCHANGED syncVars
    \/ RecipientAccept /\ UNCHANGED syncVars
    \/ RecipientReject /\ UNCHANGED syncVars
    \/ \E id \in Ids, op \in LedgerOps :
          /\ Mined(id, op)
          /\ fetchWithRetry(TxHash(op, id), KindOf(op))
    \/ \E ref \in Refs, kind \in Kinds, net \in NetSet : Fetch(ref, kind, net)
    \/ \E ref \in Refs, kind \in Kinds : Backoff(ref, kind)

SpecSync == Init /\ [][NextSync]_vars

\* fetchWithRetry and the store on their own: the url is an argument of
\* fetchWithRetry, tried here with a reference the store tracks and with one
\* it does not.
BridgeRefs == {TxHash("createRequest", 0), TxHash("confirmRequest", 0)}

NextBridge ==
    \/ Submit
    \/ \E ref \in BridgeRefs, kind \in Kinds :
          /\ nextRequestId > 0
          /\ fetchWithRetry(ref, kind)
    \/ \E ref \in Refs, kind \in Kinds, net \in NetSet : Fetch(ref, kind, net)
    \/ \E ref \in Refs, kind \in Kinds : Backoff(ref, kind)

SpecBridge == Init /\ [][NextBridge]_vars

\* Two fetchWithRetry calls side by side, one with a reference the store
\* tracks and one with a reference it does not, every fetch settling one way
\* or another and every timer of line 21 firing.
NextRetry ==
    \/ Submit
    \/ \E ref \in BridgeRefs :
          /\ nextRequestId > 0
          /\ fetchWithRetry(ref, "accepted")
    \/ \E ref \in Refs, kind \in Kinds, net \in NetSet : Fetch(ref, kind, net)
    \/ \E ref \in Refs, kind \in Kinds : Backoff(ref, kind)

SpecRetry ==
    /\ Init /\ [][NextRetry]_vars
    /\ \A ref \in BridgeRefs, kind \in Kinds :
          /\ WF_vars(\E net \in NetSet : Fetch(ref, kind, net))
          /\ WF_vars(Backoff(ref, kind))

\* server.js line 28: (await contract.nextRequestId()) - 1n.
AnsweredId(c) == nextRequestId - 1

\* server.js lines 23-27: the handler's createRequest transaction is mined.
\* The wallet pays for itself with the payment the panel computes.
CreateMined(c) ==
    /\ creating[c].pc = "idle"
    /\ \E d \in DurationSet, h \in DetailsSet, t \in TimestampSet :
          CreateRequest("buyer", "buyer", 2, d, h, PanelPayment(d, 2), t)
    /\ creating' = [creating EXCEPT ![c] = [pc |-> "mined", assigned |-> nextRequestId,
                                             answered |-> -1]]
    /\ UNCHANGED <<bridge, store>>

\* server.js lines 28-35: nextRequestId is read and the handler answers.
CreateRespond(c) ==
    /\ creating[c].pc = "mined"
    /\ creating' = [creating EXCEPT ![c].pc = "done", ![c].answered = AnsweredId(c)]
    /\ UNCHANGED <<ledgerVars, stack, last, notified, bridge, store>>

\* The panel is called again.
CreateAgain(c) ==
    /\ creating[c].pc = "done"
    /\ creating' = [creating EXCEPT ![c] = NotCalled]
    /\ UNCHANGED <<ledgerVars, stack, last, notified, bridge, store>>

\* The two panels serving /api/create at the same time, the deployer
\* confirming and cancelling what they created.
NextPanels ==
    \/ \E c \in Clients : CreateMined(c)
    \/ \E c \in Clients : CreateRespond(c)
    \/ \E c \in Clients : CreateAgain(c)
    \/ /\ stack = <<>>
       /\ \E id \in Ids : id < nextRequestId /\ ConfirmBegin(deployerOperator, id)
       /\ UNCHANGED syncVars
    \/ /\ stack = <<>>
       /\ \E id \in Ids : id < nextRequestId /\ CancelBegin(deployerOperator, id)
       /\ UNCHANGED syncVars
    \/ RecipientAccept /\ UNCHANGED syncVars
    \/ RecipientReject /\ UNCHANGED syncVars

SpecPanels == Init /\ [][NextPanels]_vars

\* The numUsers and durationMins the panels are called with.
PanelUsers == {1, 2, 6}
PanelDurations == {30, 60}

\* server.js lines 13-27 (part_001 lines 300-314): /api/create with the
\* numUsers and durationMins of the body.  The payment is a BigInt product and
\* has no width.  While it fits a uint256 it is sent as the value of
\* createRequest; when it does not, no such transaction exists and the
\* request is refused for the overflow (the ledger's own product of line 57
\* overflows for the same inputs), without any change to the ledger.
PanelCreate(durationMins, numUsers) ==
    LET pay == PanelPayment(durationMins, numUsers)
    IN  IF pay <= UintMax
        THEN /\ \E h \in DetailsSet, t \in TimestampSet :
                   CreateRequest("buyer", "buyer", numUsers, durationMins, h, pay, t)
             /\ UNCHANGED syncVars
        ELSE /\ stack = <<>>
             /\ last' = [op |-> "createRequest", sender |-> "buyer", id |-> nextRequestId,
                         err |-> CreateOutcome("buyer", numUsers, durationMins, pay),
                         args |-> [buyerOperator |-> "buyer", numUsers |-> numUsers,
                                   durationMins |-> durationMins, value |-> pay]]
             /\ UNCHANGED <<ledgerVars, stack, notified, syncVars>>

\* Requests created through the panels over a range of inputs, then confirmed
\* and cancelled by the deployer.
NextPanelCreate ==
    \/ \E d \in PanelDurations, n \in PanelUsers : PanelCreate(d, n)
    \/ /\ stack = <<>>
       /\ \E id \in Ids : id < nextRequestId /\ ConfirmBegin(deployerOperator, id)
       /\ UNCHANGED syncVars
    \/ /\ stack = <<>>
       /\ \E id \in Ids : id < nextRequestId /\ CancelBegin(deployerOperator, id)
       /\ UNCHANGED syncVars
    \/ RecipientAccept /\ UNCHANGED syncVars
    \/ RecipientReject /\ UNCHANGED syncVars

SpecPanelCreate == Init /\ [][NextPanelCreate]_vars

\* The admin panel called with any requestId, assigned or not: /api/confirm
\* and /api/cancel pass the requestId of the body on to the ledger as it is
\* (lines 39-41, 61-63).
NextAdmin ==
    \/ Submit
    \/ /\ stack = <<>>
       /\ \E s \in Senders, id \in Addressed : ConfirmBegin(s, id)
       /\ UNCHANGED syncVars
    \/ /\ stack = <<>>
       /\ \E s \in Senders, id \in Addressed : CancelBegin(s, id)
       /\ UNCHANGED syncVars
    \/ RecipientAccept /\ UNCHANGED syncVars
    \/ RecipientReject /\ UNCHANGED syncVars
    \/ \E id \in Ids, op \in LedgerOps :
          /\ Mined(id, op)
          /\ fetchWithRetry(TxHash(op, id), KindOf(op))

SpecAdmin == Init /\ [][NextAdmin]_vars

\* ------------------------------------------------------------ the store at work

MaxDeliveries == 3    \* state updates one tracked request is sent
MaxStepFailures == 1  \* reconfiguration steps that fail for one tracked request

\* The tracked requests that are sent updates below.
StoreRefs == {TrackedRef(0), TrackedRef(1)}

\* PATCH /api/request/<tx_hash>/<state> is handled by the store: a delivery
\* of the bridge, a repeated one, or one that overtook another.
Patch(ref, kind) ==
    /\ ref \in DOMAIN store
    /\ store[ref].seen.accepted + store[ref].seen.rejected < MaxDeliveries
    /\ store' = Deliver(store, ref, kind)
    /\ UNCHANGED <<ledgerVars, panelVars, bridge>>

\* One step of the sequence is made and succeeds or fails.
OrchestratorStep(ref, ok) ==
    /\ Running(store, ref)
    /\ Len(store[ref].ran) < Len(StepsInOrder)
    /\ ok \/ store[ref].failed < MaxStepFailures
    /\ store' = Orchestrate(store, ref, ok)
    /\ UNCHANGED <<ledgerVars, panelVars, bridge>>

\* All steps of the sequence have been made: the record is marked completed.
Complete(ref) ==
    /\ Running(store, ref)
    /\ store[ref].ran = StepsInOrder
    /\ store' = MarkCompleted(store, ref)
    /\ UNCHANGED <<ledgerVars, panelVars, bridge>>

\* Requests are submitted, their tracked requests are sent accepted and
\* rejected updates in any order and number, and the orchestrator works on
\* the accepted ones, all interleaved.
NextStore ==
    \/ Submit
    \/ \E ref \in StoreRefs, kind \in Kinds : Patch(ref, kind)
    \/ \E ref \in StoreRefs, ok \in BOOLEAN : OrchestratorStep(ref, ok)
    \/ \E ref \in StoreRefs : Complete(ref)

SpecStore == Init /\ [][NextStore]_vars

\* ------------------------------------------------------------ properties

\* The state as the chain holds it: while a transaction runs, the state it
\* started from (the bottom frame's saved state).
CommittedRequests == IF stack = <<>> THEN requests ELSE stack[1].saved.requests

\* How many confirmRequest and cancelRequest calls on id have succeeded.
Successes(id) == events[id].confirmed + events[id].cancelled

Terminal == {"Confirmed", "Cancelled"}

\* C1: between transactions, every assigned request has been paid out nothing
\* while it is Created and exactly amountPaid, once, when it is Confirmed or
\* Cancelled.
C1_PaidExactlyOnce ==
    stack = <<>> =>
        \A id \in Ids :
            id < nextRequestId =>
                paidOut[id] = IF requests[id].status = "Created"
                              THEN 0 ELSE requests[id].amountPaid

\* C2: a confirmRequest or cancelRequest call on an assigned id succeeds only
\* while the request is still Created at the moment the call writes the status, so of
\* the calls that passed the status check on one Created request (a call made
\* by the recipient during the transfer included) at most one succeeds.
C2_AtMostOneSucceeds ==
    [][\A id \in Ids :
          (id < nextRequestId /\ Successes(id)' > Successes(id))
              => requests[id].status = "Created"]_vars

\* C3: the status the chain holds under an id changes only from Created to
\* Confirmed or from Created to Cancelled, whatever operation is executed.
C3_StatusOneWay ==
    [][\A id \in Ids :
          CommittedRequests'[id].status # CommittedRequests[id].status =>
              /\ CommittedRequests[id].status = "Created"
              /\ CommittedRequests'[id].status \in Terminal]_vars

\* A step in which the sender of a transaction is told something new.
Reported == last' # last

\* C4 as stated: confirmRequest or cancelRequest sent to a request that is
\* Confirmed or Cancelled always fails with "The request is not in 'Created'
\* status" and changes no record and no balance.
C4_TerminalAlwaysStateConflict ==
    [][(stack = <<>> /\ Reported /\ last'.op \in LedgerOps
            /\ last'.id < nextRequestId
            /\ requests[last'.id].status \in Terminal)
          => (last'.err = ErrNotCreated /\ UNCHANGED <<ledgerVars, stack, notified>>)]_vars

\* C4 amended: such a call always fails and changes nothing; the error is the
\* state conflict when the deployer sends it and "Not the deployer Operator"
\* when anybody else does, because onlyDeployer runs before the status check.
\* A call made by a recipient from inside a transfer changes nothing either.
C4_TerminalRejected ==
    [][/\ (stack = <<>> /\ Reported /\ last'.op \in LedgerOps
              /\ requests[last'.id].status \in Terminal)
          => /\ last'.err = IF last'.sender = deployerOperator
                            THEN ErrNotCreated ELSE ErrNotDeployer
             /\ UNCHANGED <<ledgerVars, stack, notified>>
       /\ \A s \in Senders, id \in Ids :
            (requests[id].status \in Terminal
                /\ (ConfirmBegin(s, id) \/ CancelBegin(s, id)))
            => UNCHANGED <<ledgerVars, stack, notified>>]_vars

\* The deployer confirmed a request that had been cancelled and was refused.
C4_Witness ==
    /\ stack = <<>>
    /\ last.op = "confirmRequest" /\ last.sender = deployerOperator
    /\ last.err = ErrNotCreated
    /\ last.id < nextRequestId
    /\ requests[last.id].status = "Cancelled"

\* C5 as stated: createRequest with a non-zero buyerOperator is refused with
\* "Insufficient amount" whenever the payment is below rate x durationMins x
\* numUsers, and otherwise stores a new Created request under the next id.
C5_PaymentThreshold ==
    [][(Reported /\ last'.op = "createRequest"
            /\ last'.args.buyerOperator # ZeroAddress)
          => LET a == last'.args
                 required == RatePerMinute * a.durationMins * a.numUsers
             IN  IF a.value < required
                 THEN last'.err = ErrInsufficient /\ UNCHANGED ledgerVars
                 ELSE /\ last'.err = Ok
                      /\ last'.id = nextRequestId
                      /\ nextRequestId' = nextRequestId + 1
                      /\ requests'[last'.id].status = "Created"
                      /\ requests'[last'.id].amountPaid = a.value]_vars

\* C5 amended: the same whenever the product fits the integer width; when it
\* does not, the multiplication reverts with Panic(0x11) before the payment is
\* compared, and nothing changes.
C5_PaymentThresholdInRange ==
    [][(Reported /\ last'.op = "createRequest"
            /\ last'.args.buyerOperator # ZeroAddress)
          => LET a == last'.args
                 required == RatePerMinute * a.durationMins * a.numUsers
             IN  IF required > UintMax
                 THEN last'.err = ErrPanic /\ UNCHANGED ledgerVars
                 ELSE IF a.value < required
                 THEN last'.err = ErrInsufficient /\ UNCHANGED ledgerVars
                 ELSE /\ last'.err = Ok
                      /\ last'.id = nextRequestId
                      /\ nextRequestId' = nextRequestId + 1
                      /\ requests'[last'.id].status = "Created"
                      /\ requests'[last'.id].amountPaid = a.value]_vars

\* 2 users for 60 minutes paid with exactly 0.0144 ether: accepted, Created.
C5_Witness ==
    /\ last.op = "createRequest" /\ last.err = Ok
    /\ last.args.numUsers = 2 /\ last.args.durationMins = 60
    /\ last.args.value = 1440
    /\ requests[last.id].status = "Created"

\* What the call itself sends: all of amountPaid, to the deployer on confirm
\* and to the request's buyerOperator on cancel.
Payee(op, request) ==
    IF op = "confirmRequest" THEN deployerOperator ELSE request.buyerOperator

\* C6: the transfer of a confirmRequest (cancelRequest) moves exactly
\* amountPaid of the request from the ledger to the deployer (the request's
\* buyerOperator) and touches no other balance; finishing the call moves
\* nothing more; and a call during which the recipient made no successful
\* call of its own leaves every balance as it was at the start but for that
\* one transfer.
C6_TransferExact ==
    [][/\ Len(stack') = Len(stack) + 1
          => LET f == stack'[Len(stack')]
             IN  balance' = Move(balance, Ledger, Payee(f.op, requests[f.id]),
                                 requests[f.id].amountPaid)
       /\ (\E id \in Ids : Successes(id)' > Successes(id)) => balance' = balance
       /\ (Len(stack) = 1 /\ stack' = <<>> /\ last'.err = Ok
              /\ events = stack[1].saved.events)
          => LET f == stack[1]
                 r == f.saved.requests[f.id]
             IN  balance' = Move(f.saved.balance, Ledger, Payee(f.op, r), r.amountPaid)]_vars

\* A paid request was cancelled and the buyer has all its money back.
C6_Witness ==
    /\ stack = <<>>
    /\ last.op = "cancelRequest" /\ last.err = Ok
    /\ requests[last.id].amountPaid > 0
    /\ requests[last.id].buyerOperator = "buyer"
    /\ balance["buyer"] = InitialFunds
    /\ balance[deployerOperator] = 0

\* C7: confirmRequest and cancelRequest sent by anyone but the deployer fail
\* with "Not the deployer Operator" for every id and every status; no record,
\* no balance and no event changes and the panel starts no notification.
C7_NonOwnerRejected ==
    [][/\ (stack = <<>> /\ Reported /\ last'.op \in LedgerOps
              /\ last'.sender # deployerOperator)
          => /\ last'.err = ErrNotDeployer
             /\ UNCHANGED <<ledgerVars, stack, notified>>
       /\ \A s \in Senders \ {deployerOperator}, id \in Ids :
            (ConfirmBegin(s, id) \/ CancelBegin(s, id))
            => UNCHANGED <<ledgerVars, stack, notified>>]_vars

\* The buyer tried to cancel a request that was already confirmed.
C7_Witness ==
    /\ stack = <<>>
    /\ last.op = "cancelRequest" /\ last.sender = "buyer"
    /\ last.err = ErrNotDeployer
    /\ last.id < nextRequestId
    /\ requests[last.id].status = "Confirmed"
    /\ notified[last.id].rejected = 0

\* The call of frame f is undone: records, balances and events are those of
\* its entry, the request is Created and the ledger holds its amountPaid.
RolledBack(f) ==
    /\ requests' = f.saved.requests
    /\ balance' = f.saved.balance
    /\ events' = f.saved.events
    /\ requests'[f.id].status = "Created"
    /\ balance'[Ledger] >= requests'[f.id].amountPaid

\* C8: when the recipient rejects the transfer of confirmRequest or
\* cancelRequest the call is rolled back as a whole: the request stays
\* Created, the ledger still holds amountPaid, no event is emitted, the sender
\* is told "Payment failed" ("Refund failed") and no notification starts.
C8_RejectedTransferRollsBack ==
    [][/\ RecipientReject => RolledBack(Top) /\ notified' = notified
       /\ (Len(stack) = 1 /\ RecipientReject)
          => last'.err = IF Top.op = "confirmRequest" THEN ErrPayment ELSE ErrRefund
       /\ (Reported /\ last'.op \in LedgerOps /\ last'.err \in {ErrPayment, ErrRefund})
          => /\ requests' = CommittedRequests
             /\ requests'[last'.id].status = "Created"
             /\ events'[last'.id] = IF stack = <<>> THEN events[last'.id]
                                    ELSE stack[1].saved.events[last'.id]
             /\ notified' = notified]_vars

\* The buyer refused the refund of a paid request: it is still Created and
\* the ledger still holds the money.
C8_Witness ==
    /\ stack = <<>>
    /\ last.op = "cancelRequest" /\ last.err = ErrRefund
    /\ requests[last.id].status = "Created"
    /\ requests[last.id].amountPaid > 0
    /\ balance[Ledger] >= requests[last.id].amountPaid
    /\ Successes(last.id) = 0

\* C9: createRequest with the zero address as buyerOperator fails with
\* "Invalid buyerOperator" whatever is paid; no record is stored,
\* nextRequestId stays and the ledger receives nothing.
C9_ZeroRequesterRejected ==
    [][(Reported /\ last'.op = "createRequest"
            /\ last'.args.buyerOperator = ZeroAddress)
          => /\ last'.err = ErrInvalidBuyer
             /\ UNCHANGED ledgerVars]_vars

\* The zero address was refused although the payment was sufficient.
C9_Witness ==
    /\ last.op = "createRequest" /\ last.err = ErrInvalidBuyer
    /\ last.args.buyerOperator = ZeroAddress
    /\ last.args.numUsers = 2 /\ last.args.durationMins = 60
    /\ last.args.value >= 1440
    /\ nextRequestId = 1

\* How often the record with the given id occurs in a view.
Occurrences(view, id) == Cardinality({k \in 1 .. Len(view) : view[k].id = id})

\* C10: every assigned id occurs exactly once in the three views taken
\* together, and their lengths add up to the number of requests created.
C10_ViewsPartition ==
    /\ \A id \in 0 .. (nextRequestId - 1) :
          Occurrences(getPendingRequests, id)
              + Occurrences(getConfirmedRequests, id)
              + Occurrences(getCancelledRequests, id) = 1
    /\ Len(getPendingRequests) + Len(getConfirmedRequests)
           + Len(getCancelledRequests) = nextRequestId

\* All requests assigned, one in each of two different terminal views.
C10_Witness ==
    /\ stack = <<>>
    /\ nextRequestId = MaxRequests
    /\ Len(getConfirmedRequests) >= 1
    /\ Len(getCancelledRequests) >= 1

\* ------------------------------------------------------------ C11 .. C15

\* The assigned ids whose record has the given status.
WithStatus(status) == {i \in 0 .. (nextRequestId - 1) : requests[i].status = status}

\* The view lists the records of the given status, all of them and no other,
\* each as it is stored, by strictly ascending id.
ListsByStatus(view, status) ==
    /\ \A k \in 1 .. Len(view) :
          /\ view[k].status = status
          /\ view[k].id \in WithStatus(status)
          /\ view[k] = requests[view[k].id]
    /\ \A j, k \in 1 .. Len(view) : j < k => view[j].id < view[k].id
    /\ {view[k].id : k \in 1 .. Len(view)} = WithStatus(status)

\* C11: getPendingRequests, getConfirmedRequests and getCancelledRequests each
\* return all and only the assigned requests of their status, by strictly
\* ascending id, in every state the ledger reaches (so whatever the order in
\* which the requests were confirmed or cancelled).
C11_ViewsAscending ==
    /\ ListsByStatus(getPendingRequests, "Created")
    /\ ListsByStatus(getConfirmedRequests, "Confirmed")
    /\ ListsByStatus(getCancelledRequests, "Cancelled")

\* Request 1 was confirmed first and request 0 after it; the confirmed view
\* lists request 0 before request 1.
C11_Witness ==
    /\ stack = <<>>
    /\ last.op = "confirmRequest" /\ last.err = Ok /\ last.id = 0
    /\ Len(getConfirmedRequests) = 2
    /\ getConfirmedRequests[1].id = 0
    /\ getConfirmedRequests[2].id = 1

\* RequestCreated events emitted for the ids below n: the successful
\* createRequest calls so far when n covers every id.
RECURSIVE CreatedCount(_)
CreatedCount(n) == IF n = 0 THEN 0 ELSE events[n - 1].created + CreatedCount(n - 1)

\* C12: nextRequestId equals the number of successful createRequest calls; a
\* successful call returns the id nextRequestId had (the k-th call returns
\* k - 1) and stores it in the record under that id; a failed call leaves
\* nextRequestId alone; nothing else changes nextRequestId; and the id and
\* createdAt of a record never change once the id is assigned.
C12_IdsMonotonic ==
    [][/\ nextRequestId = CreatedCount(MaxRequests)
       /\ \A id \in Ids : id < nextRequestId =>
             /\ requests[id].id = id
             /\ requests'[id].id = requests[id].id
             /\ requests'[id].createdAt = requests[id].createdAt
       /\ (Reported /\ last'.op = "createRequest") =>
             IF last'.err = Ok
             THEN /\ last'.id = CreatedCount(MaxRequests)
                  /\ nextRequestId' = nextRequestId + 1
                  /\ requests'[last'.id].id = last'.id
             ELSE nextRequestId' = nextRequestId
       /\ nextRequestId' # nextRequestId =>
             (last'.op = "createRequest" /\ last'.err = Ok
                 /\ nextRequestId' = nextRequestId + 1)]_vars

\* The second successful createRequest returned id 1, after request 0 had
\* already been confirmed or cancelled.
C12_Witness ==
    /\ last.op = "createRequest" /\ last.err = Ok /\ last.id = 1
    /\ nextRequestId = 2
    /\ requests[0].id = 0 /\ requests[1].id = 1
    /\ requests[0].status # "Created"

\* C13 as stated: a createRequest paid with more than the required payment is
\* accepted and keeps all of the payment, and when the request is cancelled
\* later the requester gets back the required payment only, not the excess.
C13_ExcessNeverReturned ==
    [][/\ (Reported /\ last'.op = "createRequest" /\ last'.err # ErrInvalidBuyer
              /\ RequiredPayment(last'.args.durationMins, last'.args.numUsers) # -1
              /\ last'.args.value
                    > RequiredPayment(last'.args.durationMins, last'.args.numUsers))
          => /\ last'.err = Ok
             /\ balance' = Move(balance, last'.sender, Ledger, last'.args.value)
       /\ (Len(stack') = Len(stack) + 1 /\ stack'[Len(stack')].op = "cancelRequest")
          => LET r == requests[stack'[Len(stack')].id]
             IN  balance' = Move(balance, Ledger, r.buyerOperator,
                                 RequiredPayment(r.durationMins, r.numUsers))]_vars

\* C13 amended: such a createRequest is accepted, nothing is returned at
\* creation and the whole payment is recorded as amountPaid, which never
\* changes afterwards; a later cancelRequest refunds all of amountPaid, the
\* excess included, to the buyerOperator, and a confirmRequest pays all of it
\* to the deployer.
C13_OverpaymentEscrowed ==
    [][/\ (Reported /\ last'.op = "createRequest" /\ last'.err # ErrInvalidBuyer
              /\ RequiredPayment(last'.args.durationMins, last'.args.numUsers) # -1
              /\ last'.args.value
                    > RequiredPayment(last'.args.durationMins, last'.args.numUsers))
          => /\ last'.err = Ok
             /\ balance' = Move(balance, last'.sender, Ledger, last'.args.value)
             /\ requests'[last'.id].amountPaid = last'.args.value
       /\ \A id \in Ids : id < nextRequestId =>
             requests'[id].amountPaid = requests[id].amountPaid
       /\ Len(stack') = Len(stack) + 1
          => LET f == stack'[Len(stack')]
                 r == requests[f.id]
             IN  balance' = Move(balance, Ledger, Payee(f.op, r), r.amountPaid)]_vars

\* An overpaid request was cancelled and the buyer holds all its funds again,
\* the excess included.
C13_Witness ==
    /\ stack = <<>>
    /\ last.op = "cancelRequest" /\ last.err = Ok
    /\ requests[last.id].status = "Cancelled"
    /\ requests[last.id].amountPaid
          > RequiredPayment(requests[last.id].durationMins, requests[last.id].numUsers)
    /\ balance["buyer"] = InitialFunds
    /\ balance[Ledger] = 0

\* C14: whenever the multiplication does not overflow, the required payment
\* is exactly RatePerMinute x durationMins x numUsers, the payment is accepted
\* exactly from that amount on, and doubling durationMins or doubling numUsers
\* gives exactly twice the required payment.
C14_PaymentLinear ==
    [][(Reported /\ last'.op = "createRequest")
          => LET d == last'.args.durationMins
                 n == last'.args.numUsers
                 r == RequiredPayment(d, n)
             IN  /\ r # -1 => r = RatePerMinute * d * n
                 /\ RequiredPayment(2 * d, n) # -1 => RequiredPayment(2 * d, n) = 2 * r
                 /\ RequiredPayment(d, 2 * n) # -1 => RequiredPayment(d, 2 * n) = 2 * r
                 /\ (r # -1 /\ last'.args.buyerOperator # ZeroAddress)
                       => (last'.err = Ok <=> last'.args.value >= r)]_vars

\* 2 users for 30 minutes were accepted with 0.01 ether, which is refused for
\* 60 minutes: the required payment went from 0.0072 to 0.0144 ether.
C14_Witness ==
    /\ last.op = "createRequest" /\ last.err = Ok
    /\ last.args.numUsers = 2 /\ last.args.durationMins = 30
    /\ last.args.value = 1000
    /\ RequiredPayment(30, 2) = 720
    /\ RequiredPayment(60, 2) = 1440
    /\ RequiredPayment(30, 4) = 1440
    /\ CreateOutcome(last.args.buyerOperator, 2, 60, 1000) = ErrInsufficient

\* C15: every request the ledger stores has numUsers >= 1 and
\* durationMins >= 1.
C15_PositiveCapacity ==
    \A id \in Ids :
        id < nextRequestId =>
            (requests[id].numUsers >= 1 /\ requests[id].durationMins >= 1)

\* ------------------------------------------------------------ C16 .. C20

\* The delays the comment of line 19 and the interface description give.
DocumentedDelays == <<1000, 2000, 4000>>

\* The fetches of a call that have failed so far.
FailedFetches(b) == IF b.status = "resolved" THEN b.fetches - 1 ELSE b.fetches

\* C16: a notification makes at most 3 fetches, and every failed fetch, be it
\* a connection error or a response that is not ok, is followed by the next
\* delay of the documented sequence 1 s, 2 s, 4 s: after k failed fetches the
\* call has waited the first k of them (the wait after the latest failure
\* being under way or over).
C16_RetryBackoff ==
    \A ref \in Refs, kind \in Kinds :
        LET b == Call(bridge, ref, kind)
        IN  /\ b.fetches <= 3
            /\ b.status # "idle" =>
                  b.waits = SubSeq(DocumentedDelays, 1, FailedFetches(b))

\* The request a confirmRequest or cancelRequest transaction hash belongs to.
RequestOf(ref) == ref[2]

\* The ledger holds what the transaction behind ref did: the request has the
\* status the call gave it and its amountPaid has left the ledger.
Committed(ref) ==
    /\ requests[RequestOf(ref)].status = FinalStatus(ref[1])
    /\ paidOut[RequestOf(ref)] >= requests[RequestOf(ref)].amountPaid
    /\ events[RequestOf(ref)].confirmed + events[RequestOf(ref)].cancelled >= 1

\* A step in which the fetchWithRetry call for (ref, kind) throws.
Exhausts(ref, kind) ==
    /\ Call(bridge, ref, kind).status = "fetching"
    /\ Call(bridge', ref, kind).status = "rejected"

\* C17 as stated: when fetchWithRetry gives up after a successful
\* confirmRequest or cancelRequest, the failure is logged, the caller of
\* /api/confirm or /api/cancel is answered with an error, and the ledger is
\* left as the transaction made it.
C17_ExhaustedRetriesSurfaced ==
    [][\A op \in LedgerOps, id \in Ids :
          Exhausts(TxHash(op, id), KindOf(op)) =>
              /\ Call(bridge', TxHash(op, id), KindOf(op)).logged = 1
              /\ Call(bridge', TxHash(op, id), KindOf(op)).response = "error"
              /\ UNCHANGED <<ledgerVars, panelVars>>
              /\ Committed(TxHash(op, id))']_vars

\* C17 amended: the failure is logged once and the ledger is left as the
\* transaction made it (the request Confirmed or Cancelled, the funds paid
\* out), but the caller is answered success: true, as after a delivery that
\* worked.
C17_ExhaustedRetriesLogged ==
    [][\A op \in LedgerOps, id \in Ids :
          Exhausts(TxHash(op, id), KindOf(op)) =>
              /\ Call(bridge, TxHash(op, id), KindOf(op)).fetches = retries - 1
              /\ Call(bridge', TxHash(op, id), KindOf(op)).fetches = retries
              /\ Call(bridge', TxHash(op, id), KindOf(op)).logged = 1
              /\ Call(bridge', TxHash(op, id), KindOf(op)).response = "success"
              /\ UNCHANGED <<ledgerVars, panelVars>>
              /\ Committed(TxHash(op, id))
              /\ Committed(TxHash(op, id))']_vars

\* Request 0 was confirmed, all three fetches of its notification failed, the
\* failure was logged, and the request is still Confirmed and paid.
C17_Witness ==
    LET b == Call(bridge, TxHash("confirmRequest", 0), "accepted")
    IN  /\ b.status = "rejected" /\ b.fetches = 3 /\ b.logged = 1
        /\ b.response = "success"
        /\ requests[0].status = "Confirmed"
        /\ requests[0].amountPaid > 0
        /\ balance[deployerOperator] >= requests[0].amountPaid

\* C18: a fetch that gets an ok response, as the first, second or third of
\* its call, settles the call: fetchWithRetry returns, without a further wait
\* or fetch then or later, the store shows the delivered state under the
\* reference, nothing is logged and the caller is answered success.
C18_FirstSuccessResolves ==
    [][\A ref \in Refs, kind \in Kinds :
          LET b == Call(bridge, ref, kind)
              c == Call(bridge', ref, kind)
          IN  /\ \A net \in NetSet :
                    (Fetch(ref, kind, net) /\ Got(net, ref, kind) = "ok") =>
                        /\ c.status = "resolved"
                        /\ c.fetches = b.fetches + 1
                        /\ c.fetches <= retries
                        /\ c.waits = b.waits
                        /\ c.logged = 0
                        /\ c.response = "success"
                        /\ Covers(Tracked(store', ref).state, kind)
              /\ b.status = "resolved" => c = b]_vars

\* Two fetches failed, the third was answered ok: the call has returned after
\* waits of 1 s and 2 s, nothing was logged, and the tracked request is
\* Accepted.
C18_Witness ==
    LET b == Call(bridge, TrackedRef(0), "accepted")
    IN  /\ b.status = "resolved" /\ b.fetches = 3
        /\ b.waits = <<1000, 2000>>
        /\ b.logged = 0 /\ b.response = "success"
        /\ Tracked(store, TrackedRef(0)).state = "Accepted"

\* C19: the reference the admin panel sends with a notification is one the
\* store tracks a request under, and once the notification for a confirmed
\* (cancelled) request has been delivered with success, the tracked request
\* of that ledger request is Accepted (Rejected), or Completed after it.
C19_TrackedRequestFollowsLedger ==
    \A op \in LedgerOps, id \in Ids :
        LET ref == TxHash(op, id)
            b == Call(bridge, ref, KindOf(op))
        IN  /\ b.status # "idle" => Tracked(store, ref).state # "none"
            /\ b.status = "resolved" =>
                  Covers(Tracked(store, TrackedRef(id)).state, KindOf(op))

\* The part of a tracked request its users see: the state and what the
\* acceptance has set off.
Visible(st, ref) == [state |-> Tracked(st, ref).state, runs |-> Tracked(st, ref).runs]

\* C20: for every record the store reaches, the same (reference, state)
\* update delivered twice leaves the state and the runs triggered as one
\* delivery leaves them, and a fetch that hands the store an update it has
\* seen before for that reference changes neither.
C20_DuplicateDeliveryNoOp ==
    [][\A ref \in Refs, kind \in Kinds :
          /\ Visible(Deliver(Deliver(store, ref, kind), ref, kind), ref)
                = Visible(Deliver(store, ref, kind), ref)
          /\ (/\ Tracked(store, ref).seen[kind] >= 1
              /\ Tracked(store', ref).seen[kind] > Tracked(store, ref).seen[kind])
                => \A r \in Refs : Visible(store', r) = Visible(store, r)]_vars

\* The accepted update reached the tracked request twice (the first answer
\* was lost and the fetch was repeated); the record is Accepted and one
\* reconfiguration run was triggered.
C20_Witness ==
    /\ Tracked(store, TrackedRef(0)).seen["accepted"] = 2
    /\ Tracked(store, TrackedRef(0)).seen["rejected"] = 0
    /\ Tracked(store, TrackedRef(0)).state = "Accepted"
    /\ Tracked(store, TrackedRef(0)).runs = 1
    /\ Call(bridge, TrackedRef(0), "accepted").status = "resolved"

\* ------------------------------------------------------------ C21 .. C25

\* C21: whatever updates reach a tracked request and in whatever order,
\* between themselves and with the orchestrator's work, its state never moves
\* back in the order Created < Pending < Accepted / Rejected < Completed: no
\* step lowers it, no update that could arrive next would lower it, and a
\* record that is Completed stays Completed.
C21_StateNeverRegresses ==
    [][\A ref \in Refs :
          /\ Rank(Tracked(store', ref).state) >= Rank(Tracked(store, ref).state)
          /\ Tracked(store, ref).state = "Completed"
                => Tracked(store', ref).state = "Completed"
          /\ \A kind \in Kinds :
                /\ Rank(Tracked(Deliver(store, ref, kind), ref).state)
                      >= Rank(Tracked(store, ref).state)
                /\ Tracked(store, ref).state = "Completed"
                      => Tracked(Deliver(store, ref, kind), ref).state = "Completed"]_vars

\* A tracked request is Completed and has been sent the accepted update
\* twice and the rejected update once.
C21_Witness ==
    /\ Tracked(store, TrackedRef(0)).state = "Completed"
    /\ Tracked(store, TrackedRef(0)).seen.accepted = 2
    /\ Tracked(store, TrackedRef(0)).seen.rejected = 1

Notification(br, op, id) == Call(br, TxHash(op, id), KindOf(op))

\* RequestConfirmed (RequestCancelled) events emitted for request id.
Emitted(op, id) == IF op = "confirmRequest" THEN events[id].confirmed ELSE events[id].cancelled

\* C23: an accepted (rejected) notification is started only when a
\* confirmRequest (cancelRequest) transaction on that request has been mined
\* with success: the request has the status the call gave it, its event was
\* emitted and the funds have left the ledger; a call that fails (wrong
\* sender, wrong status, transfer refused) is answered with its error and
\* starts no notification; and no other url is ever fetched.
C23_NotifiedAfterSuccess ==
    [][/\ \A op \in LedgerOps, id \in Ids :
             Notification(bridge', op, id).status # "idle"
                => /\ notified[id][KindOf(op)] >= 1
                   /\ Emitted(op, id) >= 1
                   /\ Committed(TxHash(op, id))
       /\ \A ref \in Refs, kind \in Kinds :
             Call(bridge', ref, kind).status # "idle"
                => (ref[1] \in LedgerOps /\ kind = KindOf(ref[1]))
       /\ (Reported /\ last'.op \in LedgerOps /\ last'.err \notin {Ok, Pending})
             => /\ last'.err \in {ErrNotDeployer, ErrNotCreated, ErrPayment, ErrRefund}
                /\ notified' = notified
                /\ bridge' = bridge
                /\ events' = events]_vars

\* Request 0 was confirmed and its accepted notification was started; a
\* cancelRequest on it was then refused, and no rejected notification exists.
C23_Witness ==
    /\ stack = <<>>
    /\ last.op = "cancelRequest" /\ last.id = 0 /\ last.err = ErrNotCreated
    /\ requests[0].status = "Confirmed"
    /\ Notification(bridge, "confirmRequest", 0).status # "idle"
    /\ Notification(bridge, "cancelRequest", 0).status = "idle"
    /\ notified[0].rejected = 0

\* A fetchWithRetry call that has returned or thrown.
Settled(b) == b.status \in {"resolved", "rejected"}

C25_CreateFrame ==
    [][(Reported /\ last'.op = "createRequest")
          => LET a == last'.args
                 required == RequiredPayment(a.durationMins, a.numUsers)
                 id == nextRequestId
             IN  IF a.buyerOperator = ZeroAddress \/ required = -1 \/ a.value < required
                 THEN /\ last'.err # Ok
                      /\ UNCHANGED <<requests, nextRequestId, balance, events, paidOut>>
                 ELSE /\ last'.err = Ok /\ last'.id = id
                      /\ nextRequestId' = nextRequestId + 1
                      /\ balance'[Ledger] = balance[Ledger] + a.value
                      /\ balance'[last'.sender] = balance[last'.sender] - a.value
                      /\ \A x \in Accounts \ {Ledger, last'.sender} : balance'[x] = balance[x]
                      /\ \A j \in Ids \ {id} :
                            requests'[j] = requests[j] /\ events'[j] = events[j]
                      /\ requests'[id].id = id
                      /\ requests'[id].buyerOperator = a.buyerOperator
                      /\ requests'[id].numUsers = a.numUsers
                      /\ requests'[id].durationMins = a.durationMins
                      /\ requests'[id].status = "Created"
                      /\ requests'[id].amountPaid = a.value
                      /\ events'[id].created = events[id].created + 1
                      /\ paidOut' = paidOut]_vars

\* After one request was stored a second createRequest was refused for its
\* payment: there is still one request and the ledger holds its payment only.
C25_Witness ==
    /\ last.op = "createRequest" /\ last.err = ErrInsufficient
    /\ nextRequestId = 1
    /\ requests[0].status = "Created" /\ requests[0].amountPaid > 0
    /\ balance[Ledger] = requests[0].amountPaid
    /\ requests[1] = ZeroRequest

\* ------------------------------------------------------------ C26 .. C30

\* A record without its status.
Terms(r) == [r EXCEPT !.status = "Created"]

\* C26: the step in which a confirmRequest or cancelRequest on id succeeds
\* writes the status of request id, Confirmed or Cancelled, and nothing else
\* in any record; nextRequestId stays; the transfer before it writes no
\* record at all; and over a whole call that has succeeded every record has
\* the id, buyerOperator, numUsers, durationMins, orderDetails, createdAt and
\* amountPaid it had when the call began, and, unless the recipient made
\* successful calls of its own meanwhile, every other record its status too.
C26_OnlyStatusChanges ==
    [][/\ \A id \in Ids :
             Successes(id)' > Successes(id)
                => /\ requests' = [requests EXCEPT ![id].status = requests'[id].status]
                   /\ requests'[id].status \in Terminal
                   /\ nextRequestId' = nextRequestId
       /\ Len(stack') = Len(stack) + 1
             => (requests' = requests /\ nextRequestId' = nextRequestId)
       /\ (Len(stack) = 1 /\ stack' = <<>> /\ last'.err = Ok)
             => LET f == stack[1]
                    before == f.saved.requests
                IN  /\ \A j \in Ids : Terms(requests'[j]) = Terms(before[j])
                    /\ requests'[f.id].status = FinalStatus(f.op)
                    /\ events = f.saved.events
                          => \A j \in Ids \ {f.id} : requests'[j] = before[j]]_vars

\* Request 0 was confirmed with request 1 waiting: request 0 has all it was
\* created with and request 1 is as it was.
C26_Witness ==
    /\ stack = <<>>
    /\ last.op = "confirmRequest" /\ last.err = Ok /\ last.id = 0
    /\ nextRequestId = 2
    /\ requests[0] = [id |-> 0, buyerOperator |-> "buyer", numUsers |-> 2,
                      durationMins |-> 60, orderDetails |-> "0xabc",
                      status |-> "Confirmed", createdAt |-> 1, amountPaid |-> 1440]
    /\ requests[1] = [requests[0] EXCEPT !.id = 1, !.status = "Created"]

\* The sum of amountPaid over the assigned requests below n that are Created.
RECURSIVE Escrowed(_)
Escrowed(n) ==
    IF n = 0 THEN 0
    ELSE (IF requests[n - 1].status = "Created" /\ n - 1 < nextRequestId
          THEN requests[n - 1].amountPaid ELSE 0) + Escrowed(n - 1)

\* C27: between transactions the ledger holds exactly the sum of amountPaid
\* of the requests that are Created, so each of them can be paid out or
\* refunded in full.
C27_Solvent ==
    stack = <<>> => balance[Ledger] = Escrowed(MaxRequests)

\* C28: confirmRequest and cancelRequest sent by the deployer with an id that
\* createRequest has not assigned yet fail, emit no event and change no
\* state; no event is ever held under an unassigned id; and a request starts
\* in Created when createRequest assigns its id.
C28_OnlyAssignedIds ==
    [][/\ (stack = <<>> /\ Reported /\ last'.op \in LedgerOps
              /\ last'.sender = deployerOperator /\ last'.id >= nextRequestId)
          => /\ last'.err \notin {Ok, Pending}
             /\ UNCHANGED <<ledgerVars, stack, notified>>
       /\ \A id \in Ids :
             id >= nextRequestId'
                => (events'[id].confirmed = 0 /\ events'[id].cancelled = 0
                       /\ requests'[id] = ZeroRequest)
       /\ (Reported /\ last'.op = "createRequest" /\ last'.err = Ok)
          => requests'[last'.id].status = "Created"]_vars

\* C29: the requestId a panel answers /api/create with is the id the ledger
\* assigned to the request that call created, whatever other /api/create
\* calls were mined in between.
C29_AnsweredIdIsOwn ==
    \A c \in Clients :
        creating[c].pc = "done" => creating[c].answered = creating[c].assigned

\* The notifications started for request id, by kind.
Started(id) ==
    [accepted |-> IF Notification(bridge, "confirmRequest", id).status # "idle"
                  THEN 1 ELSE 0,
     rejected |-> IF Notification(bridge, "cancelRequest", id).status # "idle"
                  THEN 1 ELSE 0]

\* C30: for every request the admin panel has sent at most one transaction
\* that calls for a notification and the bridge has started at most one
\* notification, accepted or rejected and never both; between transactions
\* an accepted one goes with a request that is Confirmed and a rejected one
\* with a request that is Cancelled.
C30_OneNotification ==
    \A id \in Ids :
        /\ notified[id].accepted + notified[id].rejected <= 1
        /\ Started(id).accepted + Started(id).rejected <= 1
        /\ stack = <<>> =>
              /\ (notified[id].accepted = 1 <=> requests[id].status = "Confirmed")
              /\ (notified[id].rejected = 1 <=> requests[id].status = "Cancelled")
              /\ Started(id).accepted = 1 => requests[id].status = "Confirmed"
              /\ Started(id).rejected = 1 => requests[id].status = "Cancelled"

\* ------------------------------------------------------------ C31

====
